---- MODULE Spec2Model ----
(***************************************************************************)
(* Retrieval evaluation pipeline of obsidian-sonar's benchmark scripts:    *)
(*   bench/scripts/common.py          rrf_fusion, aggregate_chunk_scores   *)
(*   bench/scripts/generate_subset.py candidate pool subset construction   *)
(*                                                                         *)
(* Scores are Python floats in the source.  They are modelled as exact     *)
(* rationals <<n, d>> with d > 0 in lowest terms, so that 1/(k+rank) and   *)
(* sums and means of scores are compared exactly.                          *)
(***************************************************************************)
EXTENDS Integers, Sequences, FiniteSets, TLC

VARIABLES
    pc,          \* position of the run: which call is pending / finished
    hits1,       \* rrf_fusion: first ranked list of (doc_id, raw score)
    hits2,       \* rrf_fusion: second ranked list of (doc_id, raw score)
    k,           \* rrf_fusion: the RRF constant
    fused,       \* rrf_fusion: the returned list of (doc_id, fused score)
    chunk_hits,  \* aggregate_chunk_scores: list of (doc_id, score)
    method,      \* aggregate_chunk_scores: aggregation method name
    m,           \* aggregate_chunk_scores: top-m parameter
    doc_scores,  \* aggregate_chunk_scores: the returned list, or <<>>
    n_datasets,          \* generate_subset: len(corpus_files)
    n_queries,           \* generate_subset: args.n_queries
    bm25_top_m,          \* generate_subset: args.bm25_top_m
    max_docs,            \* generate_subset: args.max_docs_per_dataset
    ds,                  \* generate_subset: 1-based index of the dataset in work
    qrels_file,          \* lines of that dataset's qrels TSV, header dropped
    corpus_file,         \* doc ids of the lines of that dataset's corpus JSONL
    queries_file,        \* query ids of the lines of its queries JSONL
    qrels,               \* load_qrels result: query id -> set of doc ids
    corpus,              \* load_corpus result: the dict's keys in load order
    queries,             \* load_queries result: the dict's keys in load order
    sampled_query_ids,   \* sample_queries result
    qpos,                \* position of the per-query loop in sampled_query_ids
    candidate_pool,      \* the dataset's candidate pool
    bm25_results,        \* bm25_retrieve result for the last query processed
    all_corpus,          \* keys of the merged corpus
    all_queries,         \* keys of the merged queries
    all_qrels,           \* merged qrels: query id -> set of doc ids
    all_candidate_pool,  \* merged candidate pool
    out_corpus,          \* _id of the lines written to corpus.jsonl
    out_queries,         \* _id of the lines written to queries.jsonl
    out_qrels,           \* (query id, doc id) of the lines written to qrels.tsv
    query_ratio,         \* generate_subset: the parsed --query-ratio
    queries_per_dataset, \* generate_subset: queries allotted to each dataset
    required_doc_ids,    \* load_corpus: ids that must be included
    remaining_required,  \* load_corpus: required ids not met so far
    regular_count,       \* load_corpus: non-required docs loaded so far
    cpos,                \* load_corpus: 1-based number of the line in work
    corpus_paths,        \* merging: the corpus file paths given, one per dataset
    ents,                \* merging: two (dataset index, original id) entities
    merged,              \* merging: the ids the two entities are stored under
    n_queries_files,     \* generate_subset: len(queries_files)
    n_qrels_files,       \* generate_subset: len(qrels_files)
    files_present,       \* which of the input files named exist on disk
    output_dir,          \* the output directory: "absent", "stale", "written"
    errors,              \* the "Error: ..." lines main has printed
    printed,             \* the lines load_qrels has printed
    backend,             \* search: args.backend
    search_method,       \* search: args.method
    top_k,               \* search: args.top_k
    retrieval_multiplier,    \* search: args.retrieval_multiplier
    query_embeddings,    \* search: the query ids that have an embedding
    results,             \* search: the dict query id -> stored hits, as items
    trec,                \* search: the lines written to the TREC run file
    text,                \* tokenize_simple: the text, a sequence of characters
    segmenter,           \* tokenize_simple: whether tinysegmenter can be imported
    token_list,          \* tokenize_simple: the returned list of tokens
    tokens,              \* chunk_text: tokenizer.tokenize(text)
    max_length,          \* chunk_text: maximum tokens per chunk
    overlap,             \* chunk_text: overlapping tokens between chunks
    start,               \* chunk_text: index of the first token of the chunk
    chunks               \* chunk_text: the chunks so far, as (start, end)

rrfVars == <<hits1, hits2, k, fused>>
aggVars == <<chunk_hits, method, m, doc_scores>>
optVars == <<n_datasets, n_queries, bm25_top_m, max_docs>>
fileVars == <<qrels_file, corpus_file, queries_file>>
loadVars == <<qrels, corpus, queries>>
poolVars == <<sampled_query_ids, qpos, candidate_pool, bm25_results>>
mergeVars == <<all_corpus, all_queries, all_qrels, all_candidate_pool>>
outVars == <<out_corpus, out_queries, out_qrels>>
envVars ==
    <<n_queries_files, n_qrels_files, files_present, output_dir, errors,
      printed>>
subsetVars ==
    <<optVars, ds, fileVars, loadVars, poolVars, mergeVars, outVars, envVars>>

allocVars == <<query_ratio, queries_per_dataset>>
scanVars == <<required_doc_ids, remaining_required, regular_count, cpos>>
prefixVars == <<corpus_paths, ents, merged>>
otherVars == <<allocVars, scanVars, prefixVars>>

searchVars ==
    <<backend, search_method, top_k, retrieval_multiplier, query_embeddings,
      results, trec>>
tokVars == <<text, segmenter, token_list>>
chunkVars == <<tokens, max_length, overlap, start, chunks>>
laterVars == <<searchVars, tokVars, chunkVars>>

vars == <<pc, rrfVars, aggVars, subsetVars, otherVars, laterVars>>

----------------------------------------------------------------------------
(* Bounds of the model *)

MaxHits == 3        \* longest ranked list handed to rrf_fusion
MaxChunkHits == 3   \* longest chunk_hits list handed to aggregate_chunk_scores
MaxM == 2           \* largest top-m parameter tried
MaxQrelLines == 2   \* most judgment lines in a qrels file
MaxQueries == 2     \* largest --n-queries tried
MaxTopM == 2        \* largest --bm25-top-m tried
MaxAllocN == 10     \* largest --n-queries split between datasets
MaxRatio == 3       \* largest entry of --query-ratio
MaxAllocDatasets == 3   \* most datasets queries are split between
MaxSampleN == 4     \* largest n handed to sample_queries on its own
MaxCorpusLines == 3 \* most lines of a corpus file scanned line by line
MaxDocsCap == 2     \* largest max_docs handed to load_corpus on its own
MaxJudgmentLines == 3   \* most lines of a qrels file read on its own
MaxJsonLines == 3   \* most lines of a queries JSONL file read on its own
MaxTopK == 2        \* largest --top-k tried in search
MaxBackendHits == 2 \* most chunk hits a backend call returns

----------------------------------------------------------------------------
(* Exact rational arithmetic standing for Python float arithmetic *)

Abs(a) == IF a < 0 THEN -a ELSE a

Min(a, b) == IF a <= b THEN a ELSE b

RECURSIVE GCD(_, _)
GCD(a, b) == IF b = 0 THEN a ELSE GCD(b, a % b)

\* a rational in lowest terms with a positive denominator
Rat(n, d) ==
    LET g == GCD(Abs(n), Abs(d))
        s == IF d < 0 THEN -1 ELSE 1
    IN  <<(s * n) \div g, (s * d) \div g>>

Zero == Rat(0, 1)

LCM(a, b) == (a \div GCD(a, b)) * b

\* numerator of a over the denominator L, a multiple of a's denominator
Over(a, L) == a[1] * (L \div a[2])

RAdd(a, b) ==
    LET L == LCM(a[2], b[2]) IN Rat(Over(a, L) + Over(b, L), L)

RDivInt(a, n) == Rat(a[1], a[2] * n)

RLess(a, b) ==
    LET L == LCM(a[2], b[2]) IN Over(a, L) < Over(b, L)

RLeq(a, b) == ~RLess(b, a)

----------------------------------------------------------------------------
(* Python list and dict helpers *)

\* all sequences over S of length 0..n
SeqUpTo(S, n) == UNION {[1..l -> S] : l \in 0..n}

\* the doc ids of a list of (doc_id, score) pairs, in list order
Ids(hits) == [i \in DOMAIN hits |-> hits[i][1]]

IdSet(hits) == {hits[i][1] : i \in DOMAIN hits}

NoDup(seq) == \A i, j \in DOMAIN seq : seq[i] = seq[j] => i = j

\* a dict is kept as the list of its (key, value) items in insertion order
DictHas(d, key) == \E i \in DOMAIN d : d[i][1] = key

DictGet(d, key, default) ==
    IF DictHas(d, key)
    THEN d[CHOOSE i \in DOMAIN d : d[i][1] = key][2]
    ELSE default

\* d[key] = val: an existing key keeps its position, a new key goes last
DictSet(d, key, val) ==
    IF DictHas(d, key)
    THEN [i \in DOMAIN d |-> IF d[i][1] = key THEN <<key, val>> ELSE d[i]]
    ELSE Append(d, <<key, val>>)

\* sorted(items, key=lambda x: x[1], reverse=True): a stable sort, so items
\* with equal scores keep their input order
RECURSIVE InsertDesc(_, _)
InsertDesc(sorted, e) ==
    IF sorted = <<>> THEN <<e>>
    ELSE IF RLess(Head(sorted)[2], e[2])
         THEN <<e>> \o sorted
         ELSE <<Head(sorted)>> \o InsertDesc(Tail(sorted), e)

RECURSIVE SortByScoreDesc(_)
SortByScoreDesc(items) ==
    IF items = <<>> THEN <<>>
    ELSE InsertDesc(SortByScoreDesc(SubSeq(items, 1, Len(items) - 1)),
                    items[Len(items)])

----------------------------------------------------------------------------
(* generate_subset.py: state before main() has read anything *)

NoData ==
    /\ ds = 1
    /\ qrels_file = <<>>
    /\ corpus_file = <<>>
    /\ queries_file = <<>>
    /\ qrels = <<>>
    /\ corpus = <<>>
    /\ queries = <<>>
    /\ sampled_query_ids = <<>>
    /\ qpos = 1
    /\ candidate_pool = {}
    /\ bm25_results = <<>>
    /\ all_corpus = {}
    /\ all_queries = {}
    /\ all_qrels = <<>>
    /\ all_candidate_pool = {}
    /\ out_corpus = {}
    /\ out_queries = {}
    /\ out_qrels = {}

\* no allocation of queries to datasets has been asked for
AllocIdle ==
    /\ query_ratio = <<>>
    /\ queries_per_dataset = <<>>

\* load_corpus is not being stepped through
ScanIdle ==
    /\ required_doc_ids = {}
    /\ remaining_required = {}
    /\ regular_count = 0
    /\ cpos = 1

\* no ids are being namespaced
PrefixIdle ==
    /\ corpus_paths = <<>>
    /\ ents = <<>>
    /\ merged = <<>>

\* search.py is not run: its argparse defaults, nothing searched or written
SearchIdle ==
    /\ backend = "elasticsearch"
    /\ search_method = "bm25"
    /\ top_k = 100
    /\ retrieval_multiplier = 10
    /\ query_embeddings = {}
    /\ results = <<>>
    /\ trec = <<>>

\* tokenize_simple is not called
TokIdle ==
    /\ text = <<>>
    /\ segmenter = TRUE
    /\ token_list = <<>>

\* generate_embeddings.py is not run: its argparse defaults, nothing chunked
ChunkIdle ==
    /\ tokens = <<>>
    /\ max_length = 512
    /\ overlap = 128
    /\ start = 0
    /\ chunks = <<>>

LaterIdle == SearchIdle /\ TokIdle /\ ChunkIdle

OtherIdle == AllocIdle /\ ScanIdle /\ PrefixIdle /\ LaterIdle

\* common.py is not called: its arguments at their defaults
FusionIdle ==
    /\ hits1 = <<>>
    /\ hits2 = <<>>
    /\ k = 60
    /\ fused = <<>>
    /\ chunk_hits = <<>>
    /\ method = "max_p"
    /\ m = 3
    /\ doc_scores = <<>>

\* no input file has been read
NoFiles ==
    /\ ds = 1
    /\ qrels_file = <<>>
    /\ corpus_file = <<>>
    /\ queries_file = <<>>

\* nothing has been pooled, merged or written
NoPool ==
    /\ qpos = 1
    /\ candidate_pool = {}
    /\ bm25_results = <<>>
    /\ all_corpus = {}
    /\ all_queries = {}
    /\ all_qrels = <<>>
    /\ all_candidate_pool = {}
    /\ out_corpus = {}
    /\ out_queries = {}
    /\ out_qrels = {}

\* one file of each kind, all present, no output directory, nothing printed
EnvIdle ==
    /\ n_queries_files = 1
    /\ n_qrels_files = 1
    /\ files_present =
           [corpus |-> <<TRUE>>, queries |-> <<TRUE>>, qrels |-> <<TRUE>>]
    /\ output_dir = "absent"
    /\ errors = <<>>
    /\ printed = <<>>

\* the argparse defaults of generate_subset
OptIdle ==
    /\ n_datasets = 1
    /\ n_queries = 200
    /\ bm25_top_m = 200
    /\ max_docs = 100000

\* the argparse defaults, for the runs in which generate_subset is not called
SubsetIdle ==
    /\ n_datasets = 1
    /\ n_queries = 200
    /\ bm25_top_m = 200
    /\ max_docs = 100000
    /\ NoData
    /\ EnvIdle
    /\ OtherIdle

----------------------------------------------------------------------------
(* common.py: rrf_fusion *)

\* 1 / (k + rank)
RRFTerm_shifted(kk, rank) == Rat(1, kk + rank + 1)

RRFTerm(kk, rank) == Rat(1, kk + rank)

RECURSIVE RRFAccumulate_overwrite(_, _, _, _)
RRFAccumulate_overwrite(scores, hits, kk, rank) ==
    IF rank > Len(hits) THEN scores
    ELSE RRFAccumulate_overwrite(
             DictSet(scores, hits[rank][1], Rat(1, kk + rank)),
             hits, kk, rank + 1)

\* for rank, (doc_id, _) in enumerate(hits, 1):
\*     scores[doc_id] = scores.get(doc_id, 0) + 1 / (k + rank)
RECURSIVE RRFAccumulate(_, _, _, _)
RRFAccumulate(scores, hits, kk, rank) ==
    IF rank > Len(hits) THEN scores
    ELSE LET doc_id == hits[rank][1]
         IN  RRFAccumulate(
                 DictSet(scores, doc_id,
                         RAdd(DictGet(scores, doc_id, Zero), RRFTerm(kk, rank))),
                 hits, kk, rank + 1)

rrf_fusion_second_list_damped(h1, h2, kk) ==
    SortByScoreDesc(RRFAccumulate(RRFAccumulate(<<>>, h1, kk, 1), h2, kk + 1, 1))

rrf_fusion_unsorted(h1, h2, kk) ==
    RRFAccumulate(RRFAccumulate(<<>>, h1, kk, 1), h2, kk, 1)

rrf_fusion(h1, h2, kk) ==
    SortByScoreDesc(RRFAccumulate(RRFAccumulate(<<>>, h1, kk, 1), h2, kk, 1))

\* input domain: rankings over three documents, raw scores descending on a
\* per-list scale (BM25 scores and cosine similarities are not comparable)
RRFDocs == {"x", "y", "z"}

RRFScales == {1, 100}

RRFKs == {0, 1, 60}

MkHits(ids, scale) ==
    [i \in DOMAIN ids |-> <<ids[i], scale * (Len(ids) + 1 - i)>>]

RankedLists ==
    {MkHits(ids, s) : ids \in SeqUpTo(RRFDocs, MaxHits), s \in RRFScales}

InitRRF ==
    /\ pc = "rrf_call"
    /\ hits1 \in RankedLists
    /\ hits2 \in RankedLists
    /\ k \in RRFKs
    /\ fused = <<>>
    /\ chunk_hits = <<>>
    /\ method = "max_p"
    /\ m = 3
    /\ doc_scores = <<>>
    /\ SubsetIdle

Fuse ==
    /\ pc = "rrf_call"
    /\ fused' = rrf_fusion(hits1, hits2, k)
    /\ pc' = "rrf_done"
    /\ UNCHANGED <<hits1, hits2, k, aggVars, subsetVars, otherVars, laterVars>>

NextRRF == Fuse

SpecRRF == InitRRF /\ [][NextRRF]_vars

----------------------------------------------------------------------------
(* common.py: aggregate_chunk_scores *)

RRFPerDocK == 60

ValidMethods == {"max_p", "top_m_sum", "top_m_avg", "rrf_per_doc"}

\* doc_chunks[doc_id].append(score), the dict created in first-seen order
RECURSIVE GroupChunks(_, _, _)
GroupChunks(doc_chunks, hits, i) ==
    IF i > Len(hits) THEN doc_chunks
    ELSE LET doc_id == hits[i][1]
         IN  GroupChunks(
                 DictSet(doc_chunks, doc_id,
                         Append(DictGet(doc_chunks, doc_id, <<>>), hits[i][2])),
                 hits, i + 1)

\* sorted(scores, reverse=True)
SortedDesc(scores) ==
    LET keyed == SortByScoreDesc([i \in DOMAIN scores |-> <<i, scores[i]>>])
    IN  [i \in DOMAIN keyed |-> keyed[i][2]]

\* the Python slice s[:n]: the first n items, all of s when n >= len(s), and
\* all but the last -n items when n is negative
PySlice_exclusive(s, n) ==
    IF n >= 0
    THEN SubSeq(s, 1, Min(n, Len(s) + 1) - 1)
    ELSE SubSeq(s, 1, Len(s) + n)

PySlice(s, n) ==
    IF n >= 0
    THEN SubSeq(s, 1, Min(n, Len(s)))
    ELSE SubSeq(s, 1, Len(s) + n)

\* sum(scores), starting from 0
RECURSIVE Sum(_)
Sum(scores) ==
    IF scores = <<>> THEN Zero ELSE RAdd(Sum(Tail(scores)), Head(scores))

\* max(scores) of a non-empty list
RECURSIVE MaxOf(_)
MaxOf(scores) ==
    IF Len(scores) = 1 THEN scores[1]
    ELSE LET rest == MaxOf(Tail(scores))
         IN  IF RLess(Head(scores), rest) THEN rest ELSE Head(scores)

TopMSum_unsorted(scores, mm) == Sum(PySlice(scores, mm))

\* sum(scores_sorted[:m])
TopMSum(scores, mm) == Sum(PySlice(SortedDesc(scores), mm))

TopMAvg_over_m(scores, mm) ==
    LET top_scores == PySlice(SortedDesc(scores), mm)
    IN  IF top_scores # <<>> THEN RDivInt(Sum(top_scores), mm) ELSE Zero

\* sum(top_scores) / len(top_scores) if top_scores else 0.0
TopMAvg(scores, mm) ==
    LET top_scores == PySlice(SortedDesc(scores), mm)
    IN  IF top_scores # <<>>
        THEN RDivInt(Sum(top_scores), Len(top_scores))
        ELSE Zero

\* sum(1 / (k + rank) for rank in range(1, len(scores) + 1)), k = 60
RECURSIVE RRFPerDoc(_)
RRFPerDoc(n) ==
    IF n = 0 THEN Zero ELSE RAdd(RRFPerDoc(n - 1), Rat(1, RRFPerDocK + n))

\* the if / elif chain of the per-document loop; the else branch raises
FinalScore(meth, scores, mm) ==
    CASE meth = "max_p" -> MaxOf(scores)
      [] meth = "top_m_sum" -> TopMSum(scores, mm)
      [] meth = "top_m_avg" -> TopMAvg(scores, mm)
      [] meth = "rrf_per_doc" -> RRFPerDoc(Len(scores))
      [] OTHER -> "ValueError"

\* the list built by doc_scores.append((doc_id, final_score))
ScoredDocs(hits, meth, mm) ==
    LET doc_chunks == GroupChunks(<<>>, hits, 1)
    IN  [i \in DOMAIN doc_chunks |->
            <<doc_chunks[i][1], FinalScore(meth, doc_chunks[i][2], mm)>>]

aggregate_chunk_scores_unsorted(hits, meth, mm) ==
    LET scored == ScoredDocs(hits, meth, mm)
    IN  IF \E i \in DOMAIN scored : scored[i][2] = "ValueError"
        THEN [raised |-> TRUE, value |-> <<>>]
        ELSE [raised |-> FALSE, value |-> scored]

\* the returned list, or the ValueError raised in the loop body
aggregate_chunk_scores(hits, meth, mm) ==
    LET scored == ScoredDocs(hits, meth, mm)
    IN  IF \E i \in DOMAIN scored : scored[i][2] = "ValueError"
        THEN [raised |-> TRUE, value |-> <<>>]
        ELSE [raised |-> FALSE, value |-> SortByScoreDesc(scored)]

\* input domain: chunk hits of two documents with cosine-like scores, every
\* method name the function accepts plus one it does not, and the integers a
\* caller may pass as m
AggDocs == {"d1", "d2"}

ScoreVals == {Rat(9, 10), Rat(4, 5), Rat(1, 2), Rat(-1, 5)}

AggMethods == ValidMethods \cup {"bogus"}

AggMs == (-1)..MaxM

InitAgg ==
    /\ pc = "agg_call"
    /\ chunk_hits \in SeqUpTo(AggDocs \X ScoreVals, MaxChunkHits)
    /\ method \in AggMethods
    /\ m \in AggMs
    /\ doc_scores = <<>>
    /\ hits1 = <<>>
    /\ hits2 = <<>>
    /\ k = 60
    /\ fused = <<>>
    /\ SubsetIdle

Aggregate ==
    /\ pc = "agg_call"
    /\ LET r == aggregate_chunk_scores(chunk_hits, method, m)
       IN  /\ doc_scores' = r.value
           /\ pc' = IF r.raised THEN "agg_error" ELSE "agg_done"
    /\ UNCHANGED <<chunk_hits, method, m, rrfVars, subsetVars, otherVars, laterVars>>

NextAgg == Aggregate

SpecAgg == InitAgg /\ [][NextAgg]_vars

----------------------------------------------------------------------------
(* generate_subset.py: loaders, sampling, BM25 retrieval *)

Range(seq) == {seq[i] : i \in DOMAIN seq}

Reverse(seq) == [i \in DOMAIN seq |-> seq[Len(seq) + 1 - i]]

\* corpus[doc_id] = ...: a new key goes last, a repeated key keeps its place
KeyAdd(keys, key) == IF key \in Range(keys) THEN keys ELSE Append(keys, key)

\* qrels[query_id].add(doc_id) on a defaultdict(set)
QrelAdd(qr, query_id, doc_id) ==
    IF query_id \in DOMAIN qr
    THEN [qr EXCEPT ![query_id] = @ \cup {doc_id}]
    ELSE qr @@ (query_id :> {doc_id})

\* a line is the tuple of its tab-separated parts; lines with fewer than 3
\* parts are skipped and only judgments with score > 0 are kept
load_qrels(file) ==
    LET RECURSIVE Scan(_, _)
        Scan(i, qr) ==
            IF i > Len(file) THEN qr
            ELSE LET parts == file[i]
                 IN  IF Len(parts) < 3 THEN Scan(i + 1, qr)
                     ELSE IF parts[3] > 0
                          THEN Scan(i + 1, QrelAdd(qr, parts[1], parts[2]))
                          ELSE Scan(i + 1, qr)
    IN  Scan(1, <<>>)

\* required_doc_ids.update(doc_ids) for doc_ids in qrels.values()
RequiredDocIds(qr) == UNION {qr[q] : q \in DOMAIN qr}

\* the keys of the returned corpus dict in load order; maxd = 0 stands for a
\* falsy max_docs (0 or None), which loads every document
load_corpus(file, maxd, required) ==
    LET RECURSIVE Scan(_, _, _, _)
        Scan(i, corp, remaining, regular) ==
            IF i > Len(file) THEN corp
            ELSE LET doc_id == file[i]
                 IN  IF doc_id \in required
                     THEN Scan(i + 1, KeyAdd(corp, doc_id),
                               remaining \ {doc_id}, regular)
                     ELSE IF maxd # 0 /\ regular >= maxd
                          THEN IF remaining = {}
                               THEN corp
                               ELSE Scan(i + 1, corp, remaining, regular)
                          ELSE Scan(i + 1, KeyAdd(corp, doc_id),
                                    remaining, regular + 1)
    IN  Scan(1, <<>>, required, 0)

\* the keys of the returned queries dict in load order
load_queries(file) ==
    LET RECURSIVE Scan(_, _)
        Scan(i, qs) ==
            IF i > Len(file) THEN qs ELSE Scan(i + 1, KeyAdd(qs, file[i]))
    IN  Scan(1, <<>>)

\* [qid for qid in queries.keys() if qid in qrels and qrels[qid]]
ValidQueries(qs, qr) ==
    SelectSeq(qs, LAMBDA qid : qid \in DOMAIN qr /\ qr[qid] # {})

SampleChoices_with_replacement(qs, qr, n) ==
    LET valid_queries == ValidQueries(qs, qr)
    IN  IF Len(valid_queries) <= n
        THEN {valid_queries}
        ELSE [1..n -> Range(valid_queries)]

\* sample_queries without dataset_prefixes: all valid queries when there are
\* at most n, else random.sample(valid_queries, n): any n distinct ones in any
\* order, as the seeded generator decides
SampleChoices(qs, qr, n) ==
    LET valid_queries == ValidQueries(qs, qr)
    IN  IF Len(valid_queries) <= n
        THEN {valid_queries}
        ELSE {sel \in [1..n -> Range(valid_queries)] : NoDup(sel)}

\* scores.argsort(): indices by ascending score; numpy's default sort is not
\* stable, so equal scores may come in either order
ArgSorts(scores) ==
    {perm \in [DOMAIN scores -> DOMAIN scores] :
        /\ NoDup(perm)
        /\ \A i, j \in DOMAIN perm :
              i < j => scores[perm[i]] <= scores[perm[j]]}

\* the Python slice s[-n:] for n >= 0: the last n items, and all of s when
\* n = 0 (s[-0:] is s[0:]) or n >= len(s)
PyLast(s, n) ==
    IF n = 0 \/ n >= Len(s) THEN s ELSE SubSeq(s, Len(s) - n + 1, Len(s))

\* top_indices = scores.argsort()[-top_m:][::-1]
\* results = [(doc_ids[i], float(scores[i])) for i in top_indices]
bm25_retrieve(scores, perm, doc_ids, top_m) ==
    LET top_indices == Reverse(PyLast(perm, top_m))
    IN  [j \in DOMAIN top_indices |->
            <<doc_ids[top_indices[j]], scores[top_indices[j]]>>]

\* int(x / y) of Python for integers x and y: the quotient cut towards zero
IntOfQuotient(x, y) ==
    IF (x >= 0) = (y > 0) THEN Abs(x) \div Abs(y) ELSE -(Abs(x) \div Abs(y))

SumOfRatio(ratio) ==
    LET RECURSIVE Total(_)
        Total(i) == IF i = 0 THEN 0 ELSE Total(i - 1) + ratio[i]
    IN  Total(Len(ratio))

QueriesPerDataset_all_floor(n, ratio) ==
    [i \in DOMAIN ratio |-> IntOfQuotient(n * ratio[i], SumOfRatio(ratio))]

\* queries_per_dataset: int(n * ratio / total_ratio) for every dataset but
\* the last, which takes the remainder
QueriesPerDataset(n, ratio) ==
    LET total_ratio == SumOfRatio(ratio)
        Share(i) == IntOfQuotient(n * ratio[i], total_ratio)
        RECURSIVE Allocated(_)
        Allocated(i) == IF i = 0 THEN 0 ELSE Allocated(i - 1) + Share(i)
    IN  [i \in DOMAIN ratio |->
            IF i = Len(ratio) THEN n - Allocated(i - 1) ELSE Share(i)]

DefaultRatio(n) == [i \in 1..n |-> 1]

\* dataset_name = corpus_file.stem.replace("_corpus", ""), one per dataset
DatasetNames == <<"A", "B">>

\* prefix = f"{dataset_name}#"
PrefixOf(dataset_name) == dataset_name \o "#"

Prefix(i) == PrefixOf(DatasetNames[i])

----------------------------------------------------------------------------
(* generate_subset.py: main, from loading the first dataset to writing *)

BM25Scores == {0, 1}

\* the judgment lines a qrels file may hold, in the order it holds them
QrelLines ==
    << <<"q1", "a", 1>>, <<"q1", "b", 1>>, <<"q2", "a", 1>>, <<"q2", "b", 1>>,
       <<"q1", "a", 0>>, <<"q1", "b", 0>>, <<"q2", "a", 0>>, <<"q2", "b", 0>> >>

\* the lines of QrelLines at the positions I, in order
RECURSIVE LinesAt(_, _)
LinesAt(I, from) ==
    IF from > Len(QrelLines) THEN <<>>
    ELSE IF from \in I
         THEN <<QrelLines[from]>> \o LinesAt(I, from + 1)
         ELSE LinesAt(I, from + 1)

QrelsFiles ==
    {LinesAt(I, 1) : I \in {J \in SUBSET DOMAIN QrelLines :
                                Cardinality(J) <= MaxQrelLines}}

CorpusFiles == {<<"a", "b">>, <<"a">>}

QueriesFiles == {<<"q1", "q2">>, <<"q1">>}

\* the run starts with the file lists parsed; no --query-ratio is given
InitSubset ==
    /\ pc = "start"
    /\ n_datasets \in {1, 2}
    /\ n_queries_files \in {1, 2}
    /\ n_qrels_files \in {1, 2}
    /\ files_present \in [corpus : [1..n_datasets -> BOOLEAN],
                          queries : [1..n_queries_files -> BOOLEAN],
                          qrels : [1..n_qrels_files -> BOOLEAN]]
    /\ output_dir \in {"absent", "stale"}
    /\ errors = <<>>
    /\ printed = <<>>
    /\ n_queries \in 0..MaxQueries
    /\ bm25_top_m \in 0..MaxTopM
    /\ max_docs \in {0, 1}
    /\ NoData
    /\ OtherIdle
    /\ hits1 = <<>>
    /\ hits2 = <<>>
    /\ k = 60
    /\ fused = <<>>
    /\ chunk_hits = <<>>
    /\ method = "max_p"
    /\ m = 3
    /\ doc_scores = <<>>

\* "Validate file counts match"
CheckCounts ==
    /\ pc = "start"
    /\ IF n_datasets = n_queries_files /\ n_queries_files = n_qrels_files
       THEN /\ pc' = "clean"
            /\ UNCHANGED errors
       ELSE /\ pc' = "aborted"
            /\ errors' = Append(errors, "Error: Number of files must match")
    /\ UNCHANGED <<optVars, ds, fileVars, loadVars, poolVars, mergeVars,
                   outVars, n_queries_files, n_qrels_files, files_present,
                   output_dir, printed, rrfVars, aggVars, otherVars,
                   laterVars>>

\* "Clean output directory": an existing one is removed with all it holds
CleanOutputDir ==
    /\ pc = "clean"
    /\ output_dir' = "absent"
    /\ pc' = "validate"
    /\ UNCHANGED <<optVars, ds, fileVars, loadVars, poolVars, mergeVars,
                   outVars, n_queries_files, n_qrels_files, files_present,
                   errors, printed, rrfVars, aggVars, otherVars, laterVars>>

\* the first file found missing by the loop of "Validate files exist", which
\* looks at corpus, queries and qrels of each dataset in turn; "none" if all
\* files exist
FirstMissing ==
    LET Missing(i) ==
            IF ~files_present.corpus[i] THEN "Corpus"
            ELSE IF ~files_present.queries[i] THEN "Queries"
            ELSE IF ~files_present.qrels[i] THEN "Qrels"
            ELSE "none"
        RECURSIVE Look(_)
        Look(i) ==
            IF i > n_datasets THEN "none"
            ELSE IF Missing(i) # "none" THEN Missing(i) ELSE Look(i + 1)
    IN  Look(1)

ValidateFiles_corpus_only ==
    /\ pc = "validate"
    /\ IF \A i \in 1..n_datasets : files_present.corpus[i]
       THEN /\ pc' = "load"
            /\ UNCHANGED errors
       ELSE /\ pc' = "aborted"
            /\ errors' = Append(errors, "Error: Corpus file not found")
    /\ UNCHANGED <<optVars, ds, fileVars, loadVars, poolVars, mergeVars,
                   outVars, n_queries_files, n_qrels_files, files_present,
                   output_dir, printed, rrfVars, aggVars, otherVars,
                   laterVars>>

\* "Validate files exist": the first missing file is reported and main returns
ValidateFiles ==
    /\ pc = "validate"
    /\ IF FirstMissing = "none"
       THEN /\ pc' = "load"
            /\ UNCHANGED errors
       ELSE /\ pc' = "aborted"
            /\ errors' =
                   Append(errors, "Error: " \o FirstMissing \o " file not found")
    /\ UNCHANGED <<optVars, ds, fileVars, loadVars, poolVars, mergeVars,
                   outVars, n_queries_files, n_qrels_files, files_present,
                   output_dir, printed, rrfVars, aggVars, otherVars,
                   laterVars>>

\* the number of queries to sample from dataset ds
TargetQueries ==
    IF n_datasets = 1 THEN n_queries
    ELSE QueriesPerDataset(n_queries, DefaultRatio(n_datasets))[ds]

\* load_qrels, required_doc_ids, load_corpus, load_queries of dataset ds;
\* load_qrels prints nothing
LoadDataset ==
    /\ pc = "load"
    /\ \E qf \in QrelsFiles, cf \in CorpusFiles, uf \in QueriesFiles :
          /\ qrels_file' = qf
          /\ corpus_file' = cf
          /\ queries_file' = uf
          /\ qrels' = load_qrels(qf)
          /\ corpus' = load_corpus(cf, max_docs, RequiredDocIds(load_qrels(qf)))
          /\ queries' = load_queries(uf)
    /\ pc' = "sample"
    /\ UNCHANGED <<optVars, ds, poolVars, mergeVars, outVars, rrfVars, aggVars, otherVars, envVars,
                   laterVars>>

\* sample_queries, build_bm25_index, candidate_pool = set()
SampleQueries ==
    /\ pc = "sample"
    /\ \E sel \in SampleChoices(queries, qrels, TargetQueries) :
          /\ sampled_query_ids' = sel
          /\ pc' = IF sel = <<>> THEN "pool_done" ELSE "pool_loop"
    /\ qpos' = 1
    /\ candidate_pool' = {}
    /\ bm25_results' = <<>>
    /\ UNCHANGED <<optVars, ds, fileVars, loadVars, mergeVars, outVars,
                   rrfVars, aggVars, otherVars, envVars, laterVars>>

PoolStep_bm25_only ==
    /\ pc = "pool_loop"
    /\ \E scores \in [DOMAIN corpus -> BM25Scores] :
          \E perm \in ArgSorts(scores) :
              LET res == bm25_retrieve(scores, perm, corpus, bm25_top_m)
              IN  /\ bm25_results' = res
                  /\ candidate_pool' = candidate_pool \cup IdSet(res)
    /\ qpos' = qpos + 1
    /\ pc' = IF qpos = Len(sampled_query_ids) THEN "pool_done" ELSE "pool_loop"
    /\ UNCHANGED <<optVars, ds, fileVars, loadVars, sampled_query_ids,
                   mergeVars, outVars, rrfVars, aggVars, otherVars, envVars,
                   laterVars>>

\* one pass of "for query_id in sampled_query_ids": the query's relevant docs
\* and its BM25 top M go into the pool; the BM25 scores of the query are
\* whatever the index gives
PoolStep ==
    /\ pc = "pool_loop"
    /\ \E scores \in [DOMAIN corpus -> BM25Scores] :
          \E perm \in ArgSorts(scores) :
              LET query_id == sampled_query_ids[qpos]
                  relevant_docs == qrels[query_id]
                  res == bm25_retrieve(scores, perm, corpus, bm25_top_m)
              IN  /\ bm25_results' = res
                  /\ candidate_pool' =
                         (candidate_pool \cup relevant_docs) \cup IdSet(res)
    /\ qpos' = qpos + 1
    /\ pc' = IF qpos = Len(sampled_query_ids) THEN "pool_done" ELSE "pool_loop"
    /\ UNCHANGED <<optVars, ds, fileVars, loadVars, sampled_query_ids,
                   mergeVars, outVars, rrfVars, aggVars, otherVars, envVars,
                   laterVars>>

\* single dataset: "Store results"
StoreSingle ==
    /\ pc = "pool_done"
    /\ n_datasets = 1
    /\ all_corpus' = Range(corpus)
    /\ all_queries' = Range(sampled_query_ids)
    /\ all_qrels' = [qid \in Range(sampled_query_ids) |-> qrels[qid]]
    /\ all_candidate_pool' = candidate_pool
    /\ pc' = "write"
    /\ UNCHANGED <<optVars, ds, fileVars, loadVars, poolVars, outVars,
                   rrfVars, aggVars, otherVars, envVars, laterVars>>

\* several datasets: "Merge into global collections with prefix";
\* dataset_corpus[doc_id] raises KeyError for a pooled doc that was not loaded
MergeDataset ==
    /\ pc = "pool_done"
    /\ n_datasets > 1
    /\ IF \E doc_id \in candidate_pool : doc_id \notin Range(corpus)
       THEN /\ pc' = "crashed"
            /\ UNCHANGED <<ds, mergeVars>>
       ELSE LET prefix == Prefix(ds)
                new_qids == {prefix \o qid : qid \in Range(sampled_query_ids)}
                Rel(pq) ==
                    UNION {{prefix \o doc_id : doc_id \in qrels[qid]} :
                              qid \in {x \in Range(sampled_query_ids) :
                                          prefix \o x = pq}}
            IN  /\ all_corpus' =
                       all_corpus \cup {prefix \o doc_id : doc_id \in candidate_pool}
                /\ all_candidate_pool' =
                       all_candidate_pool
                           \cup {prefix \o doc_id : doc_id \in candidate_pool}
                /\ all_queries' = all_queries \cup new_qids
                /\ all_qrels' =
                       [pq \in DOMAIN all_qrels \cup new_qids |->
                           IF pq \in new_qids THEN Rel(pq) ELSE all_qrels[pq]]
                /\ ds' = ds + 1
                /\ pc' = IF ds = n_datasets THEN "write" ELSE "load"
    /\ UNCHANGED <<optVars, fileVars, loadVars, poolVars, outVars,
                   rrfVars, aggVars, otherVars, envVars, laterVars>>

WriteOutputs_whole_corpus ==
    /\ pc = "write"
    /\ out_corpus' = all_corpus
    /\ out_queries' = all_queries
    /\ out_qrels' =
           {<<qid, doc_id>> \in (DOMAIN all_qrels) \X all_candidate_pool :
               doc_id \in all_qrels[qid]}
    /\ output_dir' = "written"
    /\ pc' = "done"
    /\ UNCHANGED <<optVars, ds, fileVars, loadVars, poolVars, mergeVars,
                   n_queries_files, n_qrels_files, files_present, errors,
                   printed, rrfVars, aggVars, otherVars, laterVars>>

\* output_dir.mkdir, then corpus.jsonl, queries.jsonl and qrels.tsv, each
\* written in sorted id order
WriteOutputs ==
    /\ pc = "write"
    /\ out_corpus' = {doc_id \in all_candidate_pool : doc_id \in all_corpus}
    /\ out_queries' = all_queries
    /\ out_qrels' =
           {<<qid, doc_id>> \in (DOMAIN all_qrels) \X all_candidate_pool :
               doc_id \in all_qrels[qid]}
    /\ output_dir' = "written"
    /\ pc' = "done"
    /\ UNCHANGED <<optVars, ds, fileVars, loadVars, poolVars, mergeVars,
                   n_queries_files, n_qrels_files, files_present, errors,
                   printed, rrfVars, aggVars, otherVars, laterVars>>

NextSubset ==
    \/ CheckCounts
    \/ CleanOutputDir
    \/ ValidateFiles
    \/ LoadDataset
    \/ SampleQueries
    \/ PoolStep
    \/ StoreSingle
    \/ MergeDataset
    \/ WriteOutputs

SpecSubset == InitSubset /\ [][NextSubset]_vars

----------------------------------------------------------------------------
(* Properties of candidate pool construction, checked under SpecSubset *)

\* the doc ids a qrels file judges relevant (score > 0) to query qid
JudgedRelevant(file, qid) ==
    {file[i][2] : i \in {j \in DOMAIN file :
                            /\ Len(file[j]) >= 3
                            /\ file[j][1] = qid
                            /\ file[j][3] > 0}}

\* C1: after the per-query loop, single- and multi-dataset alike, every doc id
\* judged relevant with score > 0 to a sampled query is in the candidate pool,
\* whatever bm25_top_m is and whether or not BM25 retrieved it; the merged
\* pool then holds every relevant doc of every merged query.
C1_RelevantDocsInPool ==
    /\ pc = "pool_done" =>
          \A qid \in Range(sampled_query_ids) :
              JudgedRelevant(qrels_file, qid) \subseteq candidate_pool
    /\ pc = "write" =>
          \A qid \in DOMAIN all_qrels :
              all_qrels[qid] # {} /\ all_qrels[qid] \subseteq all_candidate_pool

\* a second dataset's loop has ended with a relevant doc of the sampled query
\* that BM25's top 1 did not return
C1_Witness ==
    /\ pc = "pool_done"
    /\ n_datasets = 2
    /\ ds = 2
    /\ bm25_top_m = 1
    /\ Len(sampled_query_ids) = 1
    /\ \E doc_id \in JudgedRelevant(qrels_file, sampled_query_ids[1]) :
          /\ doc_id \in Range(corpus)
          /\ doc_id \notin IdSet(bm25_results)
          /\ doc_id \in candidate_pool

----------------------------------------------------------------------------
(* Properties of rrf_fusion, checked under SpecRRF *)

\* 1-based position of doc d in a ranking that lists it once
RankOf(hits, d) == CHOOSE i \in DOMAIN hits : hits[i][1] = d

ScoreIn(list, d) == DictGet(list, d, Zero)

PosIn(list, d) == CHOOSE i \in DOMAIN list : list[i][1] = d

InBoth(d) == d \in IdSet(hits1) /\ d \in IdSet(hits2)

InOne(d) == (d \in IdSet(hits1)) # (d \in IdSet(hits2))

\* the rank of a document that is in exactly one of the two rankings
SingleRank(d) ==
    IF d \in IdSet(hits1) THEN RankOf(hits1, d) ELSE RankOf(hits2, d)

RankingsDistinct == NoDup(Ids(hits1)) /\ NoDup(Ids(hits2))

NonIncreasing(list) ==
    \A i \in 1..(Len(list) - 1) : RLeq(list[i + 1][2], list[i][2])

\* C2: for rankings that list each doc id at most once, a doc at 1-based
\* positions r1 and r2 gets exactly 1/(k+r1) + 1/(k+r2), a doc in only one
\* ranking at position r gets exactly 1/(k+r), and the output holds exactly the
\* union of the doc ids of both rankings, each once.
C2_RRFExactScores ==
    (pc = "rrf_done" /\ RankingsDistinct) =>
        /\ IdSet(fused) = IdSet(hits1) \cup IdSet(hits2)
        /\ NoDup(Ids(fused))
        /\ \A d \in IdSet(fused) :
              IF InBoth(d)
              THEN LET r1 == RankOf(hits1, d)
                       r2 == RankOf(hits2, d)
                   IN  ScoreIn(fused, d) =
                           Rat((k + r1) + (k + r2), (k + r1) * (k + r2))
              ELSE ScoreIn(fused, d) = Rat(1, k + SingleRank(d))

C2_Witness ==
    /\ pc = "rrf_done"
    /\ RankingsDistinct
    /\ \E d \in IdSet(fused) :
          InBoth(d) /\ RankOf(hits1, d) # RankOf(hits2, d)
    /\ \E d \in IdSet(fused) : InOne(d)

\* C3 (as claimed): rrf_fusion(A, B, k) and rrf_fusion(B, A, k) list the
\* documents in the same order, ties included.
C3_SameOrderWithTies ==
    pc = "rrf_done" => Ids(fused) = Ids(rrf_fusion(hits2, hits1, k))

\* C3 (amended): rrf_fusion(A, B, k) and rrf_fusion(B, A, k) hold the same
\* documents with the same fused scores and both are sorted by non-increasing
\* fused score, so their order can differ only among documents with equal
\* fused scores.
C3_CommutativeUpToTies ==
    pc = "rrf_done" =>
        LET rev == rrf_fusion(hits2, hits1, k)
        IN  /\ IdSet(fused) = IdSet(rev)
            /\ Len(fused) = Len(rev)
            /\ \A d \in IdSet(fused) : ScoreIn(fused, d) = ScoreIn(rev, d)
            /\ NonIncreasing(fused)
            /\ NonIncreasing(rev)
            /\ \A i \in DOMAIN fused :
                  fused[i][1] # rev[i][1] => fused[i][2] = rev[i][2]

C3_Witness ==
    /\ pc = "rrf_done"
    /\ Ids(hits1) # Ids(hits2)
    /\ Ids(fused) # Ids(rrf_fusion(hits2, hits1, k))

ScenarioXYZ ==
    /\ pc = "rrf_done"
    /\ Ids(hits1) = <<"x", "y">>
    /\ Ids(hits2) = <<"y", "z">>
    /\ k = 60

\* C4 (as claimed): ranking_a = [x, y], ranking_b = [y, z], k = 60 gives
\* x = 1/61, y = 2/61, z = 1/61, with y first and x and z tied.
C4_ScenarioAsClaimed ==
    ScenarioXYZ =>
        /\ ScoreIn(fused, "x") = Rat(1, 61)
        /\ ScoreIn(fused, "y") = Rat(2, 61)
        /\ ScoreIn(fused, "z") = Rat(1, 61)
        /\ fused[1][1] = "y"

\* C4 (amended): ranking_a = [x, y], ranking_b = [y, z], k = 60 gives
\* x = 1/61, y = 1/62 + 1/61 = 123/3782, z = 1/62, in the order y, x, z with
\* no tie.
C4_ScenarioByRank ==
    ScenarioXYZ =>
        fused = << <<"y", <<123, 3782>> >>,
                   <<"x", <<1, 61>> >>,
                   <<"z", <<1, 62>> >> >>

C4_Witness == ScenarioXYZ /\ Len(fused) = 3

\* C5 (as claimed): every document in both rankings has a strictly higher
\* fused score than, and is ranked above, every document in only one (stated
\* here for rankings that list each doc id once, a case the claim covers).
C5_BothAboveSingle ==
    (pc = "rrf_done" /\ RankingsDistinct) =>
        \A d, s \in IdSet(fused) :
            (InBoth(d) /\ InOne(s)) =>
                /\ RLess(ScoreIn(fused, s), ScoreIn(fused, d))
                /\ PosIn(fused, d) < PosIn(fused, s)

\* C5 (amended): for rankings that list each doc id at most once, a document
\* at ranks r1 and r2 of the two rankings has a strictly higher fused score
\* than, and is ranked above, every document that is in only one ranking at a
\* rank r >= min(r1, r2); a single-ranking document at a better rank than
\* both may tie with it or outrank it.
C5_BothAboveSingleNotBetterRanked ==
    (pc = "rrf_done" /\ RankingsDistinct) =>
        \A d, s \in IdSet(fused) :
            (/\ InBoth(d)
             /\ InOne(s)
             /\ SingleRank(s) >= Min(RankOf(hits1, d), RankOf(hits2, d))) =>
                /\ RLess(ScoreIn(fused, s), ScoreIn(fused, d))
                /\ PosIn(fused, d) < PosIn(fused, s)

C5_Witness ==
    /\ pc = "rrf_done"
    /\ RankingsDistinct
    /\ \E d, s \in IdSet(fused) :
          /\ InBoth(d)
          /\ InOne(s)
          /\ SingleRank(s) >= Min(RankOf(hits1, d), RankOf(hits2, d))
          /\ hits1[1][2] # hits2[1][2]
    /\ \E d, s \in IdSet(fused) :
          /\ InBoth(d)
          /\ InOne(s)
          /\ RLess(ScoreIn(fused, d), ScoreIn(fused, s))

----------------------------------------------------------------------------
(* Properties of aggregate_chunk_scores, checked under SpecAgg *)

\* the positions of chunk_hits that belong to document d
ChunksOf(d) == {i \in DOMAIN chunk_hits : chunk_hits[i][1] = d}

RECURSIVE SumAt(_)
SumAt(I) ==
    IF I = {} THEN Zero
    ELSE LET i == CHOOSE j \in I : TRUE
         IN  RAdd(SumAt(I \ {i}), chunk_hits[i][2])

\* some choice of n chunks of d, none smaller than a chunk left out, sums to v
IsSumOfLargest(d, n, v) ==
    \E I \in SUBSET ChunksOf(d) :
        /\ Cardinality(I) = n
        /\ \A i \in I, j \in ChunksOf(d) \ I :
              RLeq(chunk_hits[j][2], chunk_hits[i][2])
        /\ SumAt(I) = v

\* C6: method top_m_sum with m = 1 returns exactly the ranked list (same doc
\* ids, same scores, same order) that method max_p returns for the same
\* chunk_hits.
C6_TopMSum1EqualsMaxP ==
    (pc = "agg_done" /\ method = "top_m_sum" /\ m = 1) =>
        /\ doc_scores = aggregate_chunk_scores(chunk_hits, "max_p", m).value
        /\ \A i \in DOMAIN doc_scores :
              \A j \in ChunksOf(doc_scores[i][1]) :
                  RLeq(chunk_hits[j][2], doc_scores[i][2])

C6_Witness ==
    /\ pc = "agg_done"
    /\ method = "top_m_sum"
    /\ m = 1
    /\ Len(doc_scores) = 2
    /\ \E i, j \in DOMAIN chunk_hits :
          /\ i < j
          /\ chunk_hits[i][1] = chunk_hits[j][1]
          /\ RLess(chunk_hits[i][2], chunk_hits[j][2])

SingleChunkDocsKeepScore ==
    \A d \in IdSet(chunk_hits) :
        Cardinality(ChunksOf(d)) = 1 =>
            \A i \in ChunksOf(d) : ScoreIn(doc_scores, d) = chunk_hits[i][2]

\* C7 (as claimed): top_m_avg gives a document with exactly one chunk hit that
\* chunk's own score, for every integer m, 0 and negatives included.
C7_SingleChunkAvgAnyM ==
    (pc = "agg_done" /\ method = "top_m_avg") => SingleChunkDocsKeepScore

\* C7 (amended): top_m_avg gives a document with exactly one chunk hit that
\* chunk's own score for every m >= 1; for m <= 0 the slice scores_sorted[:m]
\* of a one-element list is empty and the document's score is 0.0.
C7_SingleChunkAvgPositiveM ==
    (pc = "agg_done" /\ method = "top_m_avg") =>
        /\ m >= 1 => SingleChunkDocsKeepScore
        /\ m <= 0 =>
              \A d \in IdSet(chunk_hits) :
                  Cardinality(ChunksOf(d)) = 1 => ScoreIn(doc_scores, d) = Zero

C7_Witness ==
    /\ pc = "agg_done"
    /\ method = "top_m_avg"
    /\ m = 2
    /\ \E d, e \in IdSet(chunk_hits) :
          /\ Cardinality(ChunksOf(d)) = 1
          /\ Cardinality(ChunksOf(e)) = 2

ScenarioD1D2 ==
    /\ pc = "agg_done"
    /\ method = "top_m_sum"
    /\ m = 1
    /\ chunk_hits = << <<"d1", Rat(9, 10)>>, <<"d1", Rat(1, 2)>>,
                       <<"d2", Rat(4, 5)>> >>

\* C8: top_m_sum (m >= 0) gives each document the sum of its m largest chunk
\* scores, or of all its chunk scores when it has fewer than m; chunk_hits =
\* [(d1,0.9),(d1,0.5),(d2,0.8)] with m = 1 yields [(d1,0.9),(d2,0.8)].
C8_TopMSumOfLargest ==
    /\ (pc = "agg_done" /\ method = "top_m_sum" /\ m >= 0) =>
          \A i \in DOMAIN doc_scores :
              LET d == doc_scores[i][1]
              IN  IsSumOfLargest(d, Min(m, Cardinality(ChunksOf(d))),
                                 doc_scores[i][2])
    /\ ScenarioD1D2 =>
          doc_scores = << <<"d1", Rat(9, 10)>>, <<"d2", Rat(4, 5)>> >>

C8_Witness == ScenarioD1D2 /\ Len(doc_scores) = 2

\* C9: a method name other than max_p, top_m_sum, top_m_avg, rrf_per_doc ends
\* the call in a ValueError and returns no ranking, for every chunk_hits
\* including the empty list.
C9_UnknownMethodRaises ==
    (pc # "agg_call" /\ method \notin ValidMethods) => pc = "agg_error"

\* C10: for every chunk_hits and every valid method the output holds exactly
\* one entry per distinct parent doc id of chunk_hits and its aggregated
\* scores are non-increasing from first to last entry.
C10_OneEntryPerDocSorted ==
    (pc # "agg_call" /\ method \in ValidMethods) =>
        /\ pc = "agg_done"
        /\ IdSet(doc_scores) = IdSet(chunk_hits)
        /\ NoDup(Ids(doc_scores))
        /\ NonIncreasing(doc_scores)

C10_Witness ==
    /\ pc = "agg_done"
    /\ method \in ValidMethods
    /\ Len(chunk_hits) = MaxChunkHits
    /\ Len(doc_scores) = 2
    /\ doc_scores[1][1] # chunk_hits[1][1]
    /\ RLess(doc_scores[2][2], doc_scores[1][2])

----------------------------------------------------------------------------
(* generate_subset.py: main, "Calculate queries per dataset based on ratio" *)

\* the ratios a caller may pass: none (<<>>), or positive integers for two
\* or more datasets
QueryRatios ==
    {<<>>} \cup UNION {[1..len -> 1..MaxRatio] : len \in 2..MaxAllocDatasets}

InitAlloc ==
    /\ pc = "alloc_call"
    /\ n_datasets \in 2..MaxAllocDatasets
    /\ n_queries \in 0..MaxAllocN
    /\ query_ratio \in QueryRatios
    /\ queries_per_dataset = <<>>
    /\ bm25_top_m = 200
    /\ max_docs = 100000
    /\ NoData
    /\ EnvIdle
    /\ ScanIdle
    /\ PrefixIdle
    /\ LaterIdle
    /\ FusionIdle

\* a ratio of the wrong length is an error; no ratio means 1:1:...
Allocate ==
    /\ pc = "alloc_call"
    /\ IF query_ratio # <<>> /\ Len(query_ratio) # n_datasets
       THEN /\ pc' = "alloc_error"
            /\ UNCHANGED allocVars
       ELSE /\ query_ratio' =
                   IF query_ratio # <<>> THEN query_ratio
                   ELSE DefaultRatio(n_datasets)
            /\ queries_per_dataset' = QueriesPerDataset(n_queries, query_ratio')
            /\ pc' = "alloc_done"
    /\ UNCHANGED <<rrfVars, aggVars, subsetVars, scanVars, prefixVars, laterVars>>

NextAlloc == Allocate

SpecAlloc == InitAlloc /\ [][NextAlloc]_vars

----------------------------------------------------------------------------
(* Properties of the allocation, checked under SpecAlloc *)

SumTo(seq, n) ==
    LET RECURSIVE Acc(_)
        Acc(i) == IF i = 0 THEN 0 ELSE Acc(i - 1) + seq[i]
    IN  Acc(n)

\* q is the floor of x / y, for y > 0
IsFloorOf(q, x, y) == q * y <= x /\ x < (q + 1) * y

\* C11: for n queries and positive integer ratios over two or more datasets,
\* every dataset but the last is allotted floor(n * r_i / sum(r)), the last
\* one is allotted n minus the others, so that the allotments are all >= 0
\* and sum to exactly n; 10 queries at ratio 3:1 give 7 and 3
C11_AllocationSumsToN ==
    pc = "alloc_done" =>
        LET N == Len(query_ratio)
            total == SumTo(query_ratio, N)
        IN  /\ Len(queries_per_dataset) = N
            /\ \A i \in 1..(N - 1) :
                   IsFloorOf(queries_per_dataset[i],
                             n_queries * query_ratio[i], total)
            /\ queries_per_dataset[N] =
                   n_queries - SumTo(queries_per_dataset, N - 1)
            /\ \A i \in 1..N : queries_per_dataset[i] >= 0
            /\ SumTo(queries_per_dataset, N) = n_queries
            /\ (n_queries = 10 /\ query_ratio = <<3, 1>>)
                   => queries_per_dataset = <<7, 3>>

C11_Witness ==
    /\ pc = "alloc_done"
    /\ n_queries = 10
    /\ query_ratio = <<3, 1>>
    /\ queries_per_dataset = <<7, 3>>

----------------------------------------------------------------------------
(* generate_subset.py: sample_queries, called without dataset_prefixes *)

SampleQueryIds == {"q1", "q2", "q3"}

\* a queries dict (its keys in insertion order) and a qrels dict whose sets
\* may be empty, as a defaultdict's are after a lookup
QueryDicts == {qs \in SeqUpTo(SampleQueryIds, 3) : NoDup(qs)}

QrelDicts ==
    UNION {[S -> {{}, {"a"}}] : S \in SUBSET SampleQueryIds}

InitSample ==
    /\ pc = "sample_call"
    /\ queries \in QueryDicts
    /\ qrels \in QrelDicts
    /\ n_queries \in 0..MaxSampleN
    /\ sampled_query_ids = <<>>
    /\ corpus = <<>>
    /\ n_datasets = 1
    /\ bm25_top_m = 200
    /\ max_docs = 100000
    /\ NoFiles
    /\ NoPool
    /\ EnvIdle
    /\ OtherIdle
    /\ FusionIdle

Sample ==
    /\ pc = "sample_call"
    /\ sampled_query_ids' \in SampleChoices(queries, qrels, n_queries)
    /\ pc' = "sample_done"
    /\ UNCHANGED <<optVars, ds, fileVars, loadVars, qpos, candidate_pool,
                   bm25_results, mergeVars, outVars, envVars, rrfVars,
                   aggVars, otherVars, laterVars>>

NextSample == Sample

SpecSample == InitSample /\ [][NextSample]_vars

----------------------------------------------------------------------------
(* Properties of sampling, checked under SpecSample *)

\* the queries that have at least one positive judgment
QueriesWithPositive ==
    {qid \in Range(queries) : qid \in DOMAIN qrels /\ qrels[qid] # {}}

\* C12: without strata sample_queries returns only ids of queries that have
\* a positive judgment, no id twice, and exactly min(n, number of such
\* queries) of them; when n is at least that number it returns them all
C12_SampleOfValidQueries ==
    pc = "sample_done" =>
        /\ Range(sampled_query_ids) \subseteq QueriesWithPositive
        /\ NoDup(sampled_query_ids)
        /\ Len(sampled_query_ids) =
               Min(n_queries, Cardinality(QueriesWithPositive))
        /\ n_queries >= Cardinality(QueriesWithPositive)
               => Range(sampled_query_ids) = QueriesWithPositive

\* a proper sample: two of three valid queries, one query left out
C12_Witness ==
    /\ pc = "sample_done"
    /\ Cardinality(QueriesWithPositive) = 3
    /\ n_queries = 2
    /\ Len(sampled_query_ids) = 2

----------------------------------------------------------------------------
(* generate_subset.py: load_corpus line by line, after main has computed   *)
(* the required ids from the qrels                                         *)

ScanDocs == {"a", "b", "c"}

\* the judged docs include one ("z") that no corpus file holds
JudgedDocs == {"a", "c", "z"}

ScanCorpusFiles == SeqUpTo(ScanDocs, MaxCorpusLines)

\* load_qrels results: every query of the dict has a non-empty set
ScanQrels ==
    UNION {[S -> (SUBSET JudgedDocs) \ {{}}] : S \in SUBSET {"q1", "q2"}}

InitScan ==
    /\ pc = "required"
    /\ qrels \in ScanQrels
    /\ corpus_file \in ScanCorpusFiles
    /\ max_docs \in 0..MaxDocsCap
    /\ corpus = <<>>
    /\ ScanIdle
    /\ ds = 1
    /\ qrels_file = <<>>
    /\ queries_file = <<>>
    /\ queries = <<>>
    /\ sampled_query_ids = <<>>
    /\ n_datasets = 1
    /\ n_queries = 200
    /\ bm25_top_m = 200
    /\ NoPool
    /\ EnvIdle
    /\ AllocIdle
    /\ PrefixIdle
    /\ LaterIdle
    /\ FusionIdle

\* required_doc_ids = set(); for doc_ids in qrels.values(): update(doc_ids)
ComputeRequired ==
    /\ pc = "required"
    /\ required_doc_ids' = RequiredDocIds(qrels)
    /\ pc' = "corpus_call"
    /\ UNCHANGED <<remaining_required, regular_count, cpos, allocVars,
                   prefixVars, subsetVars, rrfVars, aggVars, laterVars>>

\* load_corpus up to the loop
EnterLoadCorpus ==
    /\ pc = "corpus_call"
    /\ corpus' = <<>>
    /\ remaining_required' = required_doc_ids
    /\ regular_count' = 0
    /\ cpos' = 1
    /\ pc' = "scan"
    /\ UNCHANGED <<required_doc_ids, allocVars, prefixVars, optVars, ds,
                   fileVars, qrels, queries, poolVars, mergeVars, outVars,
                   envVars, rrfVars, aggVars, laterVars>>

ScanLine_break_at_cap ==
    /\ pc = "scan"
    /\ cpos <= Len(corpus_file)
    /\ LET doc_id == corpus_file[cpos]
       IN  IF doc_id \in required_doc_ids
           THEN /\ corpus' = KeyAdd(corpus, doc_id)
                /\ remaining_required' = remaining_required \ {doc_id}
                /\ cpos' = cpos + 1
                /\ UNCHANGED <<regular_count, pc>>
           ELSE IF max_docs # 0 /\ regular_count >= max_docs
                THEN /\ pc' = "corpus_loaded"
                     /\ UNCHANGED <<corpus, remaining_required,
                                    regular_count, cpos>>
                ELSE /\ corpus' = KeyAdd(corpus, doc_id)
                     /\ regular_count' = regular_count + 1
                     /\ cpos' = cpos + 1
                     /\ UNCHANGED <<remaining_required, pc>>
    /\ UNCHANGED <<required_doc_ids, allocVars, prefixVars, optVars, ds,
                   fileVars, qrels, queries, poolVars, mergeVars, outVars,
                   envVars, rrfVars, aggVars, laterVars>>

ScanLine_required_counts ==
    /\ pc = "scan"
    /\ cpos <= Len(corpus_file)
    /\ LET doc_id == corpus_file[cpos]
       IN  IF max_docs # 0 /\ regular_count >= max_docs
           THEN IF doc_id \in required_doc_ids
                THEN /\ corpus' = KeyAdd(corpus, doc_id)
                     /\ remaining_required' = remaining_required \ {doc_id}
                     /\ cpos' = cpos + 1
                     /\ UNCHANGED <<regular_count, pc>>
                ELSE IF remaining_required = {}
                     THEN /\ pc' = "corpus_loaded"
                          /\ UNCHANGED <<corpus, remaining_required,
                                         regular_count, cpos>>
                     ELSE /\ cpos' = cpos + 1
                          /\ UNCHANGED <<corpus, remaining_required,
                                         regular_count, pc>>
           ELSE /\ corpus' = KeyAdd(corpus, doc_id)
                /\ remaining_required' = remaining_required \ {doc_id}
                /\ regular_count' = regular_count + 1
                /\ cpos' = cpos + 1
                /\ UNCHANGED pc
    /\ UNCHANGED <<required_doc_ids, allocVars, prefixVars, optVars, ds,
                   fileVars, qrels, queries, poolVars, mergeVars, outVars,
                   envVars, rrfVars, aggVars, laterVars>>

\* one pass of "for line in f": a required doc is always taken; another doc
\* is taken while the cap is not used up; at the cap the loop breaks when no
\* required id remains and goes on to the next line otherwise
ScanLine ==
    /\ pc = "scan"
    /\ cpos <= Len(corpus_file)
    /\ LET doc_id == corpus_file[cpos]
       IN  IF doc_id \in required_doc_ids
           THEN /\ corpus' = KeyAdd(corpus, doc_id)
                /\ remaining_required' = remaining_required \ {doc_id}
                /\ cpos' = cpos + 1
                /\ UNCHANGED <<regular_count, pc>>
           ELSE IF max_docs # 0 /\ regular_count >= max_docs
                THEN IF remaining_required = {}
                     THEN /\ pc' = "corpus_loaded"
                          /\ UNCHANGED <<corpus, remaining_required,
                                         regular_count, cpos>>
                     ELSE /\ cpos' = cpos + 1
                          /\ UNCHANGED <<corpus, remaining_required,
                                         regular_count, pc>>
                ELSE /\ corpus' = KeyAdd(corpus, doc_id)
                     /\ regular_count' = regular_count + 1
                     /\ cpos' = cpos + 1
                     /\ UNCHANGED <<remaining_required, pc>>
    /\ UNCHANGED <<required_doc_ids, allocVars, prefixVars, optVars, ds,
                   fileVars, qrels, queries, poolVars, mergeVars, outVars,
                   envVars, rrfVars, aggVars, laterVars>>

\* the file is exhausted: load_corpus returns
EndOfFile ==
    /\ pc = "scan"
    /\ cpos > Len(corpus_file)
    /\ pc' = "corpus_loaded"
    /\ UNCHANGED <<rrfVars, aggVars, subsetVars, otherVars, laterVars>>

NextScan ==
    \/ ComputeRequired
    \/ EnterLoadCorpus
    \/ ScanLine
    \/ EndOfFile

SpecScan == InitScan /\ [][NextScan]_vars

----------------------------------------------------------------------------
(* Properties of load_corpus, checked under SpecScan *)

\* the doc ids judged relevant for some query of the qrels
JudgedInQrels == UNION {qrels[qid] : qid \in DOMAIN qrels}

\* the scan left the loop before the last line of the file
StoppedEarly == pc = "corpus_loaded" /\ cpos <= Len(corpus_file)

\* C13: the required ids are those of the qrels, fixed before the corpus is
\* read; every required id that occurs in the corpus file is in the returned
\* corpus, also when it lies after the line at which the cap was reached;
\* the scan stops before the end of the file only when every required id
\* has been met
C13_RequiredDocsNeverDropped ==
    /\ pc \in {"corpus_call", "scan", "corpus_loaded"}
           => required_doc_ids = JudgedInQrels
    /\ pc = "corpus_loaded"
           => \A doc_id \in JudgedInQrels :
                  doc_id \in Range(corpus_file) => doc_id \in Range(corpus)
    /\ StoppedEarly
           => \A doc_id \in JudgedInQrels :
                  \E i \in 1..(cpos - 1) : corpus_file[i] = doc_id

\* a required doc behind the cap: "b" uses the cap up, "c" is passed over, "a"
\* is still loaded
C13_Witness ==
    /\ pc = "corpus_loaded"
    /\ max_docs = 1
    /\ corpus_file = <<"b", "c", "a">>
    /\ JudgedInQrels = {"a"}
    /\ corpus = <<"b", "a">>

\* the numbers of the lines whose doc is not required, and those among them
\* with fewer than max_docs such lines before them
NonRequiredLines ==
    {i \in DOMAIN corpus_file : corpus_file[i] \notin JudgedInQrels}

FirstNonRequiredLines ==
    {i \in NonRequiredLines :
        Cardinality({j \in NonRequiredLines : j < i}) < max_docs}

FirstLineOf(doc_id) ==
    CHOOSE i \in DOMAIN corpus_file :
        /\ corpus_file[i] = doc_id
        /\ \A j \in 1..(i - 1) : corpus_file[j] # doc_id

\* C14: with a cap max_docs > 0 the non-required docs of the returned corpus
\* are exactly those of the first max_docs non-required lines of the file, in
\* file order; there are never more than max_docs of them, and required docs
\* do not use the cap up
C14_CapOnNonRequiredOnly ==
    (pc = "corpus_loaded" /\ max_docs > 0) =>
        LET kept == {i \in DOMAIN corpus : corpus[i] \notin JudgedInQrels}
        IN  /\ {corpus[i] : i \in kept}
                   = {corpus_file[i] : i \in FirstNonRequiredLines}
            /\ Cardinality(kept) <= max_docs
            /\ NoDup(corpus)
            /\ \A i, j \in kept :
                   i < j => FirstLineOf(corpus[i]) < FirstLineOf(corpus[j])

\* the cap is used up by non-required docs only: "a" is required, "b" is the
\* one regular doc, "c" is over the cap
C14_Witness ==
    /\ pc = "corpus_loaded"
    /\ max_docs = 1
    /\ corpus_file = <<"a", "b", "c">>
    /\ JudgedInQrels = {"a"}
    /\ corpus = <<"a", "b">>

----------------------------------------------------------------------------
(* Properties of the written subset, checked under SpecSubset *)

\* the id under which an id of the dataset in work is stored
StoredId(id) == IF n_datasets = 1 THEN id ELSE Prefix(ds) \o id

\* the step that stores (one dataset) or merges (several) the dataset in work
StoreStep == pc = "pool_done" /\ pc' \in {"write", "load"}

\* what the store or merge step adds comes from the dataset in work: its
\* pool, its sampled queries, and positive lines of its qrels file
StoredFromDataset ==
    /\ all_candidate_pool' =
           all_candidate_pool \cup {StoredId(d) : d \in candidate_pool}
    /\ all_queries' =
           all_queries \cup {StoredId(q) : q \in Range(sampled_query_ids)}
    /\ DOMAIN all_qrels' = all_queries'
    /\ \A pq \in DOMAIN all_qrels' :
           \A pd \in all_qrels'[pq] :
               \/ pq \in DOMAIN all_qrels /\ pd \in all_qrels[pq]
               \/ \E q \in Range(sampled_query_ids) :
                      \E d \in JudgedRelevant(qrels_file, q) :
                          pq = StoredId(q) /\ pd = StoredId(d)

\* what is written comes from what was stored
WrittenFromStored ==
    /\ out_corpus' \subseteq all_candidate_pool
    /\ out_queries' = all_queries
    /\ \A line \in out_qrels' :
           /\ line[1] \in all_queries
           /\ line[2] \in all_candidate_pool
           /\ line[2] \in all_qrels[line[1]]

\* C15: every document written to corpus.jsonl is in the candidate pool, the
\* query ids written to queries.jsonl are exactly the sampled query ids, and
\* every line of qrels.tsv pairs a sampled query with a pooled document that
\* the input qrels judge positive for it; the stored pool, queries and qrels
\* grow by the pool, the sample and the positive judgments of each dataset
\* in turn, and the files are written from them
C15_EmittedFromPoolAndSample ==
    [][/\ StoreStep => StoredFromDataset
       /\ (pc = "write" /\ pc' = "done") => WrittenFromStored]_vars

\* two datasets written, a judged pair of each among the lines of qrels.tsv
C15_Witness ==
    /\ pc = "done"
    /\ <<"A#q1", "A#a">> \in out_qrels
    /\ <<"B#q2", "B#b">> \in out_qrels
    /\ out_queries = {"A#q1", "B#q2"}

----------------------------------------------------------------------------
(* generate_subset.py: main, the ids under which merged entities are stored *)

\* Path(f).stem of the corpus files tried, and stem.replace("_corpus", "")
Stems == {"corpus", "a_corpus", "a", "a#b_corpus"}

Dirs == {"en", "ja"}

DatasetNameOf(path) ==
    CASE path.stem = "corpus" -> "corpus"
      [] path.stem = "a_corpus" -> "a"
      [] path.stem = "a" -> "a"
      [] path.stem = "a#b_corpus" -> "a#b"

CorpusPaths == [dir : Dirs, stem : Stems]

OriginalIds == {"1", "b#1"}

\* two different corpus files, and two different entities (documents, say)
\* of these datasets
InitPrefix ==
    /\ pc = "merge_ids"
    /\ corpus_paths \in {ps \in CorpusPaths \X CorpusPaths : ps[1] # ps[2]}
    /\ ents \in {es \in ((1..2) \X OriginalIds) \X ((1..2) \X OriginalIds) :
                    es[1] # es[2]}
    /\ merged = <<>>
    /\ n_datasets = 2
    /\ n_queries = 200
    /\ bm25_top_m = 200
    /\ max_docs = 100000
    /\ NoData
    /\ EnvIdle
    /\ AllocIdle
    /\ ScanIdle
    /\ LaterIdle
    /\ FusionIdle

\* prefixed_doc_id = prefix + doc_id, prefixed_query_id = prefix + query_id
PrefixedId(path, id) == PrefixOf(DatasetNameOf(path)) \o id

MergeIds ==
    /\ pc = "merge_ids"
    /\ merged' =
           [e \in 1..2 |-> PrefixedId(corpus_paths[ents[e][1]], ents[e][2])]
    /\ pc' = "ids_merged"
    /\ UNCHANGED <<corpus_paths, ents, allocVars, scanVars, subsetVars,
                   rrfVars, aggVars, laterVars>>

NextPrefix == MergeIds

SpecPrefix == InitPrefix /\ [][NextPrefix]_vars

----------------------------------------------------------------------------
(* Properties of the merged ids, checked under SpecPrefix *)

\* C16: when datasets are merged every id is stored as dataset_name, "#" and
\* the original id, and two entities that differ in dataset or in original
\* id never get the same merged id, whatever the file names and ids are
C16_MergedIdsUnique ==
    pc = "ids_merged" => merged[1] # merged[2]

----------------------------------------------------------------------------
(* Properties of bm25_retrieve, checked under SpecSubset *)

\* the place of a doc id in the corpus dict, that is in doc_ids
LoadOrder(doc_id) == CHOOSE i \in DOMAIN corpus : corpus[i] = doc_id

\* C17: bm25_retrieve breaks score ties by document load order: of two
\* returned documents with equal score the one loaded earlier is ranked first
C17_TiesByLoadOrder ==
    pc \in {"pool_loop", "pool_done"} =>
        \A i, j \in DOMAIN bm25_results :
            (i < j /\ bm25_results[i][2] = bm25_results[j][2])
                => LoadOrder(bm25_results[i][1]) < LoadOrder(bm25_results[j][1])

----------------------------------------------------------------------------
(* Properties of the input validation, checked under SpecSubset *)

\* the three file lists have one entry per dataset and some entry names a
\* file that does not exist
MissingInput ==
    /\ n_datasets = n_queries_files
    /\ n_queries_files = n_qrels_files
    /\ \E i \in 1..n_datasets :
           \/ ~files_present.corpus[i]
           \/ ~files_present.queries[i]
           \/ ~files_present.qrels[i]

NotFoundErrors ==
    {"Error: Corpus file not found", "Error: Queries file not found",
     "Error: Qrels file not found"}

\* C19: when an input file is missing the run never gets to loading: it ends
\* with one reported "not found" error, nothing is loaded, the output
\* directory is not created and no output file is written, also when the
\* files of earlier datasets all exist
C19_MissingFileAbortsCleanly ==
    MissingInput =>
        /\ pc \in {"start", "clean", "validate", "aborted"}
        /\ qrels = <<>> /\ corpus = <<>> /\ queries = <<>>
        /\ output_dir # "written"
        /\ out_corpus = {} /\ out_queries = {} /\ out_qrels = {}
        /\ pc = "aborted" =>
               /\ output_dir = "absent"
               /\ Len(errors) = 1
               /\ errors[1] \in NotFoundErrors

\* the first dataset is complete, the qrels file of the second is missing
C19_Witness ==
    /\ pc = "aborted"
    /\ n_datasets = 2
    /\ files_present =
           [corpus |-> <<TRUE, TRUE>>, queries |-> <<TRUE, TRUE>>,
            qrels |-> <<TRUE, FALSE>>]
    /\ errors = <<"Error: Qrels file not found">>
    /\ output_dir = "absent"

----------------------------------------------------------------------------
(* generate_subset.py: load_qrels on files with malformed lines *)

\* lines after the header, each the tuple of its tab-separated parts: good
\* lines with score 1 or 0, lines with one or two parts, a line with four
JudgmentLines ==
    {<<"q1", "a", 1>>, <<"q1", "b", 1>>, <<"q2", "a", 0>>,
     <<"q1", "a">>, <<"q2">>, <<"q2", "b", 1, "x">>}

InitQrels ==
    /\ pc = "qrels_call"
    /\ qrels_file \in SeqUpTo(JudgmentLines, MaxJudgmentLines)
    /\ qrels = <<>>
    /\ printed = <<>>
    /\ ds = 1
    /\ corpus_file = <<>>
    /\ queries_file = <<>>
    /\ corpus = <<>>
    /\ queries = <<>>
    /\ sampled_query_ids = <<>>
    /\ NoPool
    /\ n_datasets = 1
    /\ n_queries = 200
    /\ bm25_top_m = 200
    /\ max_docs = 100000
    /\ n_queries_files = 1
    /\ n_qrels_files = 1
    /\ files_present =
           [corpus |-> <<TRUE>>, queries |-> <<TRUE>>, qrels |-> <<TRUE>>]
    /\ output_dir = "absent"
    /\ errors = <<>>
    /\ OtherIdle
    /\ FusionIdle

\* qrels = load_qrels(qrels_file); the function has no print and no counter
LoadQrels ==
    /\ pc = "qrels_call"
    /\ qrels' = load_qrels(qrels_file)
    /\ pc' = "qrels_loaded"
    /\ UNCHANGED <<optVars, ds, fileVars, corpus, queries, poolVars,
                   mergeVars, outVars, envVars, rrfVars, aggVars, otherVars,
                   laterVars>>

NextQrels == LoadQrels

SpecQrels == InitQrels /\ [][NextQrels]_vars

----------------------------------------------------------------------------
(* Properties of load_qrels, checked under SpecQrels *)

\* the lines load_qrels passes over for their column count
SkippedLines == {i \in DOMAIN qrels_file : Len(qrels_file[i]) < 3}

\* the line a report of n skipped lines would be
SkipReport(n) == [skipped |-> n]

\* C20: a qrels line with the wrong number of columns is skipped and not
\* fatal: load_qrels returns every positive judgment of the well-formed
\* lines, and the number of skipped lines is counted and reported
C20_SkippedLinesReported ==
    pc = "qrels_loaded" =>
        /\ \A i \in DOMAIN qrels_file :
               (Len(qrels_file[i]) = 3 /\ qrels_file[i][3] > 0)
                   => /\ qrels_file[i][1] \in DOMAIN qrels
                      /\ qrels_file[i][2] \in qrels[qrels_file[i][1]]
        /\ SkippedLines # {}
               => \E j \in DOMAIN printed :
                      printed[j] = SkipReport(Cardinality(SkippedLines))

----------------------------------------------------------------------------
(* generate_subset.py: load_queries on files with malformed JSON lines *)

\* a line that json.loads rejects; every other line is the JSON object of a
\* query and is written as its _id
MalformedJson == "{_id:"

JsonLines == {"q1", "q2", "q3", MalformedJson}

\* json.loads(line): the _id of the object, or JSONDecodeError
json_loads(line) ==
    IF line = MalformedJson
    THEN [raised |-> TRUE, id |-> ""]
    ELSE [raised |-> FALSE, id |-> line]

\* load_queries with its exceptions: json.loads is called on every line with
\* no try around it, so the first malformed line ends the call
load_queries_raising(file) ==
    IF \E i \in DOMAIN file : json_loads(file[i]).raised
    THEN [raised |-> TRUE, value |-> <<>>]
    ELSE [raised |-> FALSE,
          value |-> load_queries([i \in DOMAIN file |-> json_loads(file[i]).id])]

InitJsonl ==
    /\ pc = "queries_call"
    /\ queries_file \in SeqUpTo(JsonLines, MaxJsonLines)
    /\ queries = <<>>
    /\ ds = 1
    /\ qrels_file = <<>>
    /\ corpus_file = <<>>
    /\ qrels = <<>>
    /\ corpus = <<>>
    /\ sampled_query_ids = <<>>
    /\ NoPool
    /\ OptIdle
    /\ EnvIdle
    /\ OtherIdle
    /\ FusionIdle

\* queries = load_queries(queries_file); an exception ends the run
LoadQueries ==
    /\ pc = "queries_call"
    /\ LET r == load_queries_raising(queries_file)
       IN  /\ queries' = r.value
           /\ pc' = IF r.raised THEN "queries_crashed" ELSE "queries_loaded"
    /\ UNCHANGED <<optVars, ds, fileVars, qrels, corpus, poolVars, mergeVars,
                   outVars, envVars, rrfVars, aggVars, otherVars, laterVars>>

NextJsonl == LoadQueries

SpecJsonl == InitJsonl /\ [][NextJsonl]_vars

----------------------------------------------------------------------------
(* Properties of the JSONL loaders, checked under SpecJsonl *)

\* the well-formed lines of the queries file, in file order
ValidJsonLines == SelectSeq(queries_file, LAMBDA line : line # MalformedJson)

\* C21: a malformed JSON line is skipped and the loader goes on with the
\* lines after it: the run is not aborted while a valid line remains, and
\* the loader returns the queries of the valid lines
C21_MalformedJsonSkipped ==
    (pc # "queries_call" /\ ValidJsonLines # <<>>) =>
        /\ pc = "queries_loaded"
        /\ Range(queries) = Range(ValidJsonLines)

----------------------------------------------------------------------------
(* retrieval-bench/scripts/search.py: the per-query loop and the run file *)

RSub(a, b) == RAdd(a, <<-b[1], b[2]>>)

RTimesInt(a, n) == Rat(a[1] * n, a[2])

\* hit["_score"] * 2 - 1: Elasticsearch kNN score back to cosine similarity
ESVectorScore(score) == RSub(RTimesInt(score, 2), Rat(1, 1))

\* 1 - obj.metadata.distance
WeaviateVectorScore(distance) == RSub(Rat(1, 1), distance)

\* chunk_hits of a vector search, from the backend's chunks in its order
VectorChunkHits(be, response) ==
    [i \in DOMAIN response |->
        <<response[i][1],
          IF be = "elasticsearch" THEN ESVectorScore(response[i][2])
          ELSE WeaviateVectorScore(response[i][2])>>]

\* search_es_bm25, search_weaviate_bm25
search_bm25(response, agg_method, agg_m) ==
    aggregate_chunk_scores(response, agg_method, agg_m).value

\* search_es_vector, search_weaviate_vector
search_vector(be, response, agg_method, agg_m) ==
    aggregate_chunk_scores(VectorChunkHits(be, response), agg_method, agg_m).value

search_hybrid_concat(be, bm25_response, vector_response, agg_method, agg_m, rrf_k) ==
    search_bm25(bm25_response, agg_method, agg_m)
        \o search_vector(be, vector_response, agg_method, agg_m)

\* search_es_hybrid, search_weaviate_hybrid
search_hybrid(be, bm25_response, vector_response, agg_method, agg_m, rrf_k) ==
    rrf_fusion(search_bm25(bm25_response, agg_method, agg_m),
               search_vector(be, vector_response, agg_method, agg_m), rrf_k)

write_trec_run_from_zero(res) ==
    LET RECURSIVE Lines(_)
        Lines(i) ==
            IF i > Len(res) THEN <<>>
            ELSE [rank \in DOMAIN res[i][2] |->
                     [query_id |-> res[i][1], doc_id |-> res[i][2][rank][1],
                      rank |-> rank - 1, score |-> res[i][2][rank][2]]]
                 \o Lines(i + 1)
    IN  Lines(1)

\* write_trec_run: for every item of results, in dict order, one line per
\* hit with rank from enumerate(hits, 1)
write_trec_run(res) ==
    LET RECURSIVE Lines(_)
        Lines(i) ==
            IF i > Len(res) THEN <<>>
            ELSE [rank \in DOMAIN res[i][2] |->
                     [query_id |-> res[i][1], doc_id |-> res[i][2][rank][1],
                      rank |-> rank, score |-> res[i][2][rank][2]]]
                 \o Lines(i + 1)
    IN  Lines(1)

SearchDocs == {"d1", "d2"}

\* raw scores (BM25 scores, kNN scores, distances) a backend may return
RawScores == {Rat(1, 2), Rat(1, 1)}

\* what a backend call with limit chunk_top_k may return
BackendResponses(chunk_top_k) ==
    SeqUpTo(SearchDocs \X RawScores, Min(chunk_top_k, MaxBackendHits))

\* the state when the loop over the queries starts: queries and embeddings
\* are loaded and the backend has answered the connection check; the
\* aggregation options are the argparse defaults
InitSearch ==
    /\ pc = "search_loop"
    /\ backend \in {"elasticsearch", "weaviate"}
    /\ search_method \in {"bm25", "vector", "hybrid"}
    /\ top_k \in 0..MaxTopK
    /\ retrieval_multiplier \in {1, 2}
    /\ queries \in {<<"q1">>, <<"q1", "q2">>}
    /\ query_embeddings \in SUBSET Range(queries)
    /\ qpos = 1
    /\ results = <<>>
    /\ trec = <<>>
    /\ method = "max_p"
    /\ m = 3
    /\ k = 60
    /\ hits1 = <<>>
    /\ hits2 = <<>>
    /\ fused = <<>>
    /\ chunk_hits = <<>>
    /\ doc_scores = <<>>
    /\ ds = 1
    /\ qrels_file = <<>>
    /\ corpus_file = <<>>
    /\ queries_file = <<>>
    /\ qrels = <<>>
    /\ corpus = <<>>
    /\ sampled_query_ids = <<>>
    /\ candidate_pool = {}
    /\ bm25_results = <<>>
    /\ all_corpus = {}
    /\ all_queries = {}
    /\ all_qrels = <<>>
    /\ all_candidate_pool = {}
    /\ out_corpus = {}
    /\ out_queries = {}
    /\ out_qrels = {}
    /\ OptIdle
    /\ EnvIdle
    /\ AllocIdle
    /\ ScanIdle
    /\ PrefixIdle
    /\ TokIdle
    /\ ChunkIdle

\* the backend calls of one query: a BM25 call, a vector call, or both
BackendAnswers(chunk_top_k) ==
    CASE search_method = "bm25" -> BackendResponses(chunk_top_k) \X {<<>>}
      [] search_method = "vector" -> {<<>>} \X BackendResponses(chunk_top_k)
      [] search_method = "hybrid" ->
             BackendResponses(chunk_top_k) \X BackendResponses(chunk_top_k)

\* the hits of one query: what the search function of the method returns for
\* the backend's answers
HitsFor(bm25_response, vector_response) ==
    CASE search_method = "bm25" -> search_bm25(bm25_response, method, m)
      [] search_method = "vector" ->
             search_vector(backend, vector_response, method, m)
      [] search_method = "hybrid" ->
             search_hybrid(backend, bm25_response, vector_response,
                           method, m, k)

\* one pass of "for query_id, query_text in queries.items()": a query without
\* an embedding is passed over by the vector and hybrid methods; a backend
\* call that raises is not caught, which ends main; otherwise the first
\* top_k hits are stored
SearchQuery ==
    /\ pc = "search_loop"
    /\ qpos <= Len(queries)
    /\ LET query_id == queries[qpos]
           chunk_top_k == top_k * retrieval_multiplier
       IN  IF search_method # "bm25" /\ query_id \notin query_embeddings
           THEN /\ qpos' = qpos + 1
                /\ UNCHANGED <<pc, results>>
           ELSE \/ /\ pc' = "search_crashed"
                   /\ UNCHANGED <<qpos, results>>
                \/ \E answers \in BackendAnswers(chunk_top_k) :
                       LET hits == HitsFor(answers[1], answers[2])
                       IN  /\ results' =
                                  DictSet(results, query_id, PySlice(hits, top_k))
                           /\ qpos' = qpos + 1
                           /\ UNCHANGED pc
    /\ UNCHANGED <<backend, search_method, top_k, retrieval_multiplier,
                   query_embeddings, trec, queries, method, m, k, hits1, hits2,
                   fused, chunk_hits, doc_scores, optVars, ds, fileVars, qrels,
                   corpus, sampled_query_ids, candidate_pool, bm25_results,
                   mergeVars, outVars, envVars, otherVars, tokVars,
                   chunkVars>>

\* after the loop: write_trec_run(output_file, run_id, results)
WriteTrecRun ==
    /\ pc = "search_loop"
    /\ qpos > Len(queries)
    /\ trec' = write_trec_run(results)
    /\ pc' = "search_done"
    /\ UNCHANGED <<backend, search_method, top_k, retrieval_multiplier,
                   query_embeddings, results, rrfVars, aggVars, subsetVars,
                   otherVars, tokVars, chunkVars>>

NextSearch ==
    \/ SearchQuery
    \/ WriteTrecRun

SpecSearch == InitSearch /\ [][NextSearch]_vars

----------------------------------------------------------------------------
(* Properties of search, checked under SpecSearch *)

\* C22: a backend call that fails for one query does not end the run: the
\* other queries are still searched and the run file is written with the
\* results of the queries that succeeded
C22_BackendErrorIsolated ==
    /\ pc # "search_crashed"
    /\ pc = "search_done" =>
           \A i \in DOMAIN results :
               \A r \in DOMAIN results[i][2] :
                   \E l \in DOMAIN trec :
                       /\ trec[l].query_id = results[i][1]
                       /\ trec[l].doc_id = results[i][2][r][1]

\* the lines of the run file that belong to a query, in line order
LinesOf(query_id) == SelectSeq(trec, LAMBDA line : line.query_id = query_id)

\* C23: in the run file the lines of a query carry the ranks 1, 2, 3, ... in
\* line order without gaps, and the score never increases with the rank
C23_RanksContiguousScoresDescending ==
    pc = "search_done" =>
        \A query_id \in Range(queries) :
            LET lines == LinesOf(query_id)
            IN  /\ \A i \in DOMAIN lines : lines[i].rank = i
                /\ \A i \in 1..(Len(lines) - 1) :
                       RLeq(lines[i + 1].score, lines[i].score)

\* a hybrid run with two lines of different score for a query
C23_Witness ==
    /\ pc = "search_done"
    /\ search_method = "hybrid"
    /\ Len(LinesOf("q2")) = 2
    /\ RLess(LinesOf("q2")[2].score, LinesOf("q2")[1].score)

\* C30: the hits stored for a query are at most top_k and name no doc id
\* twice, whatever the method; the two rankings the hybrid methods hand to
\* rrf_fusion come from aggregate_chunk_scores and name no doc id twice
C30_StoredHitsBoundedDistinct ==
    /\ \A i \in DOMAIN results :
           /\ Len(results[i][2]) <= top_k
           /\ NoDup(Ids(results[i][2]))
    /\ \A response \in BackendResponses(MaxBackendHits) :
           /\ NoDup(Ids(search_bm25(response, method, m)))
           /\ NoDup(Ids(search_vector(backend, response, method, m)))

\* a fused list of two documents cut to top_k = 1
C30_Witness ==
    /\ pc = "search_done"
    /\ search_method = "hybrid"
    /\ top_k = 1
    /\ \E i \in DOMAIN results : Len(results[i][2]) = 1
    /\ Len(trec) = 2


----------------------------------------------------------------------------
(* generate_subset.py: tokenize_simple.  A string is a sequence of
   characters; the alphabet has a lower-case letter, an upper-case letter
   and the space *)

MaxTextLen == 3

Chars == {"a", "A", " "}

\* str.lower() on one character
LowerChar(c) == IF c = "A" THEN "a" ELSE c

\* text.lower()
Lower(s) == [i \in DOMAIN s |-> LowerChar(s[i])]

\* text.split(): the maximal runs of non-space characters, in order
Split(s) ==
    LET RECURSIVE From(_, _, _)
        From(i, cur, acc) ==
            LET closed == IF cur = <<>> THEN acc ELSE Append(acc, cur)
            IN  IF i > Len(s) THEN closed
                ELSE IF s[i] = " " THEN From(i + 1, <<>>, closed)
                ELSE From(i + 1, Append(cur, s[i]), acc)
    IN  From(1, <<>>, <<>>)

\* segmenter.tokenize(text): the text cut into consecutive non-empty pieces;
\* where TinySegmenter cuts is up to its statistical model
RECURSIVE Segmentations(_)
Segmentations(s) ==
    IF s = <<>> THEN {<<>>}
    ELSE UNION {{<<SubSeq(s, 1, i)>> \o rest :
                    rest \in Segmentations(SubSeq(s, i + 1, Len(s)))} :
                i \in 1..Len(s)}

\* t.strip() is empty
IsBlank(t) == \A i \in DOMAIN t : t[i] = " "

\* [t for t in pieces if t.strip()]
NonBlank(pieces) == SelectSeq(pieces, LAMBDA t : ~IsBlank(t))

\* list(set(items)): the distinct items, in whatever order the set gives
ListOfSet(items) ==
    {l \in [1..Cardinality(Range(items)) -> Range(items)] : NoDup(l)}

\* text.replace(" ", "")
NoSpaces(s) == SelectSeq(s, LAMBDA c : c # " ")

\* [text_no_spaces[i:i+2] for i in range(len(text_no_spaces) - 1)]
CharBigrams(s) == [i \in 1..(Len(s) - 1) |-> SubSeq(s, i, i + 1)]

\* the lists tokenize_simple may return for a text: with tinysegmenter
\* list(set(word_tokens + tiny_tokens)), and on ImportError
\* word_tokens + char_bigrams
tokenize_simple(s, has_segmenter) ==
    LET lowered == Lower(s)
        word_tokens == Split(lowered)
    IN  IF has_segmenter
        THEN UNION {ListOfSet(word_tokens \o NonBlank(pieces)) :
                       pieces \in Segmentations(lowered)}
        ELSE {word_tokens \o CharBigrams(NoSpaces(lowered))}

InitTok ==
    /\ pc = "tokenize_call"
    /\ text \in SeqUpTo(Chars, MaxTextLen)
    /\ segmenter \in BOOLEAN
    /\ token_list = <<>>
    /\ ChunkIdle
    /\ SearchIdle
    /\ FusionIdle
    /\ OptIdle
    /\ NoData
    /\ EnvIdle
    /\ AllocIdle
    /\ ScanIdle
    /\ PrefixIdle

\* one call tokenize_simple(text)
Tokenize ==
    /\ pc = "tokenize_call"
    /\ token_list' \in tokenize_simple(text, segmenter)
    /\ pc' = "tokenized"
    /\ UNCHANGED <<text, segmenter, rrfVars, aggVars, subsetVars, otherVars,
                   searchVars, chunkVars>>

NextTok == Tokenize

SpecTok == InitTok /\ [][NextTok]_vars

\* C24: whatever the text (the empty one included) and whether or not the
\* segmenter is available, no token occurs twice in the list tokenize_simple
\* returns.
C24_TokensDeduplicated ==
    pc = "tokenized" => NoDup(token_list)


----------------------------------------------------------------------------
(* generate_subset.py: the size of a BM25 retrieval *)

\* C25: after a pass of the per-query loop, the list bm25_retrieve returned
\* holds exactly min(top_m, N) documents of the N loaded, no document twice:
\* none for top_m = 0 and never more than top_m.
C25_RetrievesMinTopMDistinct ==
    (pc \in {"pool_loop", "pool_done"} /\ qpos > 1) =>
        /\ Len(bm25_results) = Min(bm25_top_m, Len(corpus))
        /\ \A i, j \in DOMAIN bm25_results :
              bm25_results[i][1] = bm25_results[j][1] => i = j


----------------------------------------------------------------------------
(* generate_subset.py: a relevant document that the corpus file lacks *)

\* C26: once the subset is written, every doc id of a line of qrels.tsv is
\* the _id of a line of corpus.jsonl, also when a document the qrels require
\* is not in the input corpus file.
C26_QrelsDocsInCorpus ==
    pc = "done" => \A line \in out_qrels : line[2] \in out_corpus

\* C27: a pooled relevant document that is absent from the dataset's corpus
\* never makes the merge step fail: the run is never stopped by the lookup
\* dataset_corpus[doc_id], in single and in multi-dataset mode.
C27_MissingDocNeverFailsMerge ==
    ~(/\ pc = "crashed"
      /\ \E doc_id \in candidate_pool : doc_id \notin Range(corpus))


----------------------------------------------------------------------------
(* generate_subset.py: what an aborting run does to the output directory *)

\* the run is one that main aborts: the file counts differ or an input file
\* is missing
AbortingRun ==
    \/ ~(n_datasets = n_queries_files /\ n_queries_files = n_qrels_files)
    \/ FirstMissing # "none"

\* C28: no step of a run that aborts on a fatal configuration or input error
\* changes the output directory: an output directory that existed before the
\* run is still there, with its files, when the run has aborted.
C28_AbortKeepsOutputDir ==
    [][AbortingRun => output_dir' = output_dir]_vars


----------------------------------------------------------------------------
(* generate_embeddings.py: chunk_text, one action per pass of its loop.
   A token is its position in the text *)

MaxTokens == 4
MaxChunkLength == 3
MaxOverlap == 4
MaxChunks == 4

\* a Python index of a slice, brought into 0..len(s)
SliceIndex(s, i) ==
    IF i < 0 THEN (IF i + Len(s) < 0 THEN 0 ELSE i + Len(s))
    ELSE Min(i, Len(s))

\* the Python slice s[a:b], either index possibly negative
PySliceFromTo(s, a, b) ==
    IF SliceIndex(s, a) >= SliceIndex(s, b) THEN <<>>
    ELSE SubSeq(s, SliceIndex(s, a) + 1, SliceIndex(s, b))

\* chunk_text is called with max_length >= 1 and overlap >= 0, as the
\* options --max-chunk-tokens and --chunk-overlap give them
InitChunk ==
    /\ pc = "chunk_call"
    /\ tokens \in {[i \in 1..n |-> i] : n \in 0..MaxTokens}
    /\ max_length \in 1..MaxChunkLength
    /\ overlap \in 0..MaxOverlap
    /\ start = 0
    /\ chunks = <<>>
    /\ TokIdle
    /\ SearchIdle
    /\ FusionIdle
    /\ OptIdle
    /\ NoData
    /\ EnvIdle
    /\ AllocIdle
    /\ ScanIdle
    /\ PrefixIdle

\* tokens = tokenizer.tokenize(text); a text that fits is returned whole,
\* otherwise chunks = [], start = 0
ChunkCall ==
    /\ pc = "chunk_call"
    /\ IF Len(tokens) <= max_length
       THEN /\ chunks' = <<tokens>>
            /\ pc' = "chunked"
       ELSE /\ chunks' = <<>>
            /\ pc' = "chunk_loop"
    /\ start' = 0
    /\ UNCHANGED <<tokens, max_length, overlap, rrfVars, aggVars, subsetVars,
                   otherVars, searchVars, tokVars>>

\* one pass of "while start < len(tokens)"; the list of chunks is followed
\* up to MaxChunks entries
ChunkStep ==
    /\ pc = "chunk_loop"
    /\ Len(chunks) < MaxChunks
    /\ IF start < Len(tokens)
       THEN LET end == Min(start + max_length, Len(tokens))
                chunk_tokens == PySliceFromTo(tokens, start, end)
            IN  /\ chunks' = Append(chunks, chunk_tokens)
                /\ IF end >= Len(tokens)
                   THEN /\ pc' = "chunked"
                        /\ UNCHANGED start
                   ELSE /\ start' = start + max_length - overlap
                        /\ UNCHANGED pc
       ELSE /\ pc' = "chunked"
            /\ UNCHANGED <<start, chunks>>
    /\ UNCHANGED <<tokens, max_length, overlap, rrfVars, aggVars, subsetVars,
                   otherVars, searchVars, tokVars>>

NextChunk ==
    \/ ChunkCall
    \/ ChunkStep

SpecChunk == InitChunk /\ [][NextChunk]_vars

\* C29: for max_length >= 1 and overlap >= 0, overlap >= max_length
\* included, every pass of the chunking loop that does not end the loop
\* moves the start index forward, so that the loop comes to an end.
C29_StartStrictlyAdvances ==
    [][(pc = "chunk_loop" /\ pc' = "chunk_loop") => start' > start]_vars

====
